---- MODULE Spec2Model ----
(***************************************************************************)
(* Model of src/app.jsx (ML Pipeline Visual Board): the graph held by the  *)
(* MLPipelineBoard component, its editing handlers, topologicalSort,       *)
(* validateGraph, generatePyTorchCode, buildCode and downloadCode.         *)
(***************************************************************************)
EXTENDS Integers, Sequences, FiniteSets, TLC

VARIABLES nodes, edges, selected, code, downloaded, order, op

vars == <<nodes, edges, selected, code, downloaded, order, op>>

\* op: the handler that ran last and the text it was given (observation only)
Op(name, arg) == <<name, arg>>

(* ---------------- bounds ---------------- *)
\* topologicalSort inputs
MaxSortNodes == 3
MaxSortEdges == 3
\* validateGraph inputs
MaxValNodes == 3
MaxValEdges == 1
\* buildCode / downloadCode inputs
MaxBuildNodes == 4
MaxBuildEdges == 2
\* the board under editing
MaxNodes == 2
MaxEdges == 1

(* ---------------- NODE_TYPES ---------------- *)
NODE_TYPES == {"Data", "Transform", "Split", "Model", "Loss", "Optimizer",
               "Metric", "Trainer", "Composite"}

(* ---------------- JavaScript values ---------------- *)
\* A JavaScript value as the emitter sees it: its type tag t and the text s
\* that a template literal produces for it.
JsVal(t, s) == [t |-> t, s |-> s]
Absent == JsVal("undefined", "undefined")
JsNull == JsVal("null", "null")

\* x ?? d
Nullish(x) == x.t \in {"undefined", "null"}
Coalesce(x, d) == IF Nullish(x) THEN d ELSE x

\* m.get(k) || 0 for the Maps of topologicalSort
Get(m, k) == IF k \in DOMAIN m THEN m[k] ELSE 0
\* m.set(k, v)
Put(m, k, v) == [x \in (DOMAIN m) \cup {k} |-> IF x = k THEN v ELSE m[x]]

(* ---------------- topologicalSort ---------------- *)
\* new Map(nodes.map((n) => [n.id, 0]))
InitIncoming(ns) == [i \in {ns[k].id : k \in DOMAIN ns} |-> 0]
\* new Map(nodes.map((n) => [n.id, []]))
InitOut(ns) == [i \in {ns[k].id : k \in DOMAIN ns} |-> <<>>]

\* edges.forEach: out lists in edge order, incoming counts per target
RECURSIVE CountEdges(_, _, _)
CountEdges(es, incoming, out) ==
  IF es = <<>> THEN [incoming |-> incoming, out |-> out]
  ELSE LET e == Head(es)
           out1 == IF e.source \in DOMAIN out THEN out ELSE Put(out, e.source, <<>>)
           out2 == Put(out1, e.source, Append(out1[e.source], e.target))
           inc2 == Put(incoming, e.target, Get(incoming, e.target) + 1)
       IN CountEdges(Tail(es), inc2, out2)

\* nodes.filter((n) => (incoming.get(n.id) || 0) === 0).map((n) => n.id)
RECURSIVE ReadyIdsNoFilter(_, _)
ReadyIdsNoFilter(ns, incoming) ==
  IF ns = <<>> THEN <<>> ELSE <<Head(ns).id>> \o ReadyIdsNoFilter(Tail(ns), incoming)
RECURSIVE ReadyIds(_, _)
ReadyIds(ns, incoming) ==
  IF ns = <<>> THEN <<>>
  ELSE IF Get(incoming, Head(ns).id) = 0
       THEN <<Head(ns).id>> \o ReadyIds(Tail(ns), incoming)
       ELSE ReadyIds(Tail(ns), incoming)

\* (out.get(v) || []).forEach((u) => { decrement; if zero q.push(u) })
RECURSIVE ReleaseUnshift(_, _, _)
ReleaseUnshift(succ, incoming, q) ==
  IF succ = <<>> THEN [incoming |-> incoming, q |-> q]
  ELSE LET u == Head(succ)
           inc2 == Put(incoming, u, Get(incoming, u) - 1)
       IN ReleaseUnshift(Tail(succ), inc2, IF Get(inc2, u) = 0 THEN <<u>> \o q ELSE q)
RECURSIVE Release(_, _, _)
Release(succ, incoming, q) ==
  IF succ = <<>> THEN [incoming |-> incoming, q |-> q]
  ELSE LET u == Head(succ)
           inc2 == Put(incoming, u, Get(incoming, u) - 1)
       IN Release(Tail(succ), inc2, IF Get(inc2, u) = 0 THEN Append(q, u) ELSE q)

\* while (q.length) { v = q.shift(); res.push(v); ... }
RECURSIVE Drain(_, _, _, _)
Drain(q, res, incoming, out) ==
  IF q = <<>> THEN res
  ELSE LET v == Head(q)
           r == Release(IF v \in DOMAIN out THEN out[v] ELSE <<>>, incoming, Tail(q))
       IN Drain(r.q, Append(res, v), r.incoming, out)

topologicalSort(ns, es) ==
  LET m == CountEdges(es, InitIncoming(ns), InitOut(ns))
  IN Drain(ReadyIds(ns, m.incoming), <<>>, m.incoming, m.out)

(* ---------------- node data ---------------- *)
\* data.params: kind is the JSON kind of the value, s its text when it is a
\* primitive, and lr, batch_size, epochs, members the properties the program
\* reads (Absent when the value has no such property).
Params(kind, s, lr, batch_size, epochs, members) ==
  [kind |-> kind, s |-> s, lr |-> lr, batch_size |-> batch_size,
   epochs |-> epochs, members |-> members]
Obj(lr, batch_size, epochs) == Params("object", "", lr, batch_size, epochs, Absent)
EmptyObj == Obj(Absent, Absent, Absent)
NoParams == Params("undefined", "undefined", Absent, Absent, Absent, Absent)
NullParams == Params("null", "null", Absent, Absent, Absent, Absent)
Prim(kind, s) == Params(kind, s, Absent, Absent, Absent, Absent)

\* JavaScript truthiness of a params value (the left operand of ||)
Truthy(p) ==
  /\ p.kind \notin {"undefined", "null"}
  /\ ~(p.kind = "number" /\ p.s = "0")
  /\ ~(p.kind = "string" /\ p.s = "")
  /\ ~(p.kind = "boolean" /\ p.s = "false")
\* params || dflt
OrDefault(p, dflt) == IF Truthy(p) THEN p ELSE dflt

Num(s) == JsVal("number", s)
\* 1e-3, 64 and 3 as a template literal prints them
DefaultLr == Num("0.001")
DefaultBatchSize == Num("64")
DefaultEpochs == Num("3")

\* addNode: data = { label: `${type}`, type, params: {}, summary: "" }
NewData(type) == [label |-> type, type |-> type, params |-> EmptyObj, summary |-> ""]
Node(id, data) == [id |-> id, data |-> data]

(* ---------------- emitted text ---------------- *)
\* A text is a kind and its blocks in order; a block names the node it was
\* emitted for (0 when none) and the value printed into it.
Line(blk, node, arg) == [blk |-> blk, node |-> node, arg |-> arg]
Text(kind, lines) == [kind |-> kind, lines |-> lines]
\* useState("")
EmptyText == Text("empty", <<>>)
NoDownload == Text("none", <<>>)
\* useState("project")
projectName == "project"

RECURSIVE SelectType(_, _)
SelectType(ns, t) ==
  IF ns = <<>> THEN <<>>
  ELSE IF Head(ns).data.type = t THEN <<Head(ns)>> \o SelectType(Tail(ns), t)
       ELSE SelectType(Tail(ns), t)

\* byId = Object.fromEntries(nodes.map((n) => [n.id, n])): the last node of an id wins
ById(ns, id) == ns[CHOOSE k \in DOMAIN ns : ns[k].id = id /\ \A j \in DOMAIN ns : ns[j].id = id => j <= k]

\* order.map((id) => byId[id]).filter(Boolean)
RECURSIVE OrderedNodes(_, _)
OrderedNodes(ord, ns) ==
  IF ord = <<>> THEN <<>>
  ELSE IF \E k \in DOMAIN ns : ns[k].id = Head(ord)
       THEN <<ById(ns, Head(ord))>> \o OrderedNodes(Tail(ord), ns)
       ELSE OrderedNodes(Tail(ord), ns)

\* dataNodes.forEach / tfNodes.forEach: one block per node
RECURSIVE PerNode(_, _)
PerNode(blk, ns) ==
  IF ns = <<>> THEN <<>>
  ELSE <<Line(blk, Head(ns).id, Head(ns).data.label)>> \o PerNode(blk, Tail(ns))

\* `lr=${p.lr ?? 1e-3}` with p = opt.data.params || { lr: 1e-3 }
OptimizerLr(opt) ==
  LET p == OrDefault(opt.data.params, Obj(DefaultLr, Absent, Absent))
  IN Coalesce(p.lr, DefaultLr)

\* p = trainer.data.params || { epochs: 3, batch_size: 64 }
TrainerParams(tr) == OrDefault(tr.data.params, Obj(Absent, DefaultBatchSize, DefaultEpochs))

\* if (metricNodes.length): the evaluation block, once
MetricsBlock(ordered) ==
  IF SelectType(ordered, "Metric") # <<>> THEN <<Line("metrics", 0, "0.0")>> ELSE <<>>

generatePyTorchCode(ns, es, name) ==
  LET ordered == OrderedNodes(topologicalSort(ns, es), ns)
      dataNodes == SelectType(ordered, "Data")
      tfNodes == SelectType(ordered, "Transform")
      split == SelectType(ordered, "Split")
      model == SelectType(ordered, "Model")
      loss == SelectType(ordered, "Loss")
      opt == SelectType(ordered, "Optimizer")
      trainer == SelectType(ordered, "Trainer")
  IN Text("program",
       <<Line("header", 0, "")>>
       \o PerNode("data", dataNodes)
       \o PerNode("transform", tfNodes)
       \o (IF split # <<>> THEN <<Line("split", Head(split).id, "")>> ELSE <<>>)
       \o (IF model # <<>> THEN <<Line("model", Head(model).id, "")>> ELSE <<>>)
       \o (IF loss # <<>> THEN <<Line("loss", Head(loss).id, "")>> ELSE <<>>)
       \o (IF opt # <<>>
           THEN <<Line("optimizer", Head(opt).id, OptimizerLr(Head(opt)).s)>> ELSE <<>>)
       \o (IF trainer # <<>>
           THEN <<Line("loaders", Head(trainer).id,
                       Coalesce(TrainerParams(Head(trainer)).batch_size, DefaultBatchSize).s),
                  Line("trainloop", Head(trainer).id,
                       Coalesce(TrainerParams(Head(trainer)).epochs, DefaultEpochs).s)>>
           ELSE <<>>)
       \o MetricsBlock(ordered)
       \o <<Line("save", 0, name)>>)

(* ---------------- validateGraph ---------------- *)
\* The four messages of validateGraph:
\*   "Net uzla Model", "Net uzla Loss", "Net uzla Optimizer", "Obnaruzhen tsikl v grafe"
NoModel == "no Model node"
NoLoss == "no Loss node"
NoOptimizer == "no Optimizer node"
CycleFound == "cycle in graph"

typeCount(ns, t) == Len(SelectType(ns, t))

MissingStages(ns) ==
  (IF typeCount(ns, "Model") = 0 THEN <<NoModel>> ELSE <<>>)
  \o (IF typeCount(ns, "Loss") = 0 THEN <<NoLoss>> ELSE <<>>)
  \o (IF typeCount(ns, "Optimizer") = 0 THEN <<NoOptimizer>> ELSE <<>>)

\* order.length !== nodes.length
CycleCheck(ns, es) ==
  IF Len(topologicalSort(ns, es)) # Len(ns) THEN <<CycleFound>> ELSE <<>>

validateGraphNoReturn(ns, es) ==
  LET errors == MissingStages(ns) \o CycleCheck(ns, es)
  IN [ok |-> errors = <<>>, errors |-> errors]
validateGraph(ns, es) ==
  LET errors == MissingStages(ns)
  IN IF errors # <<>> THEN [ok |-> FALSE, errors |-> errors]
     ELSE [ok |-> CycleCheck(ns, es) = <<>>, errors |-> CycleCheck(ns, es)]

RECURSIVE ErrorLines(_)
ErrorLines(errs) ==
  IF errs = <<>> THEN <<>> ELSE <<Line("error", 0, Head(errs))>> \o ErrorLines(Tail(errs))

\* what buildCode hands to setCode
BuildText(ns, es) ==
  LET v == validateGraph(ns, es)
  IN IF ~v.ok THEN Text("errors", ErrorLines(v.errors))
     ELSE generatePyTorchCode(ns, es, projectName)

(* ---------------- inputs ---------------- *)
\* An id that no node of a drawn graph carries (an edge endpoint outside N).
GhostId == 0

Edge(s, t) == [source |-> s, target |-> t]
SeqsUpTo(S, n) == UNION {[1..k -> S] : k \in 0..n}
EdgeLists(ids, maxE) == SeqsUpTo({Edge(s, t) : s \in ids, t \in ids}, maxE)

\* position of a type in NODE_TYPES
TypeRank(t) ==
  CASE t = "Data" -> 1 [] t = "Transform" -> 2 [] t = "Split" -> 3
    [] t = "Model" -> 4 [] t = "Loss" -> 5 [] t = "Optimizer" -> 6
    [] t = "Metric" -> 7 [] t = "Trainer" -> 8 [] t = "Composite" -> 9

\* Type lists up to reordering of the node list; the edges are arbitrary, so
\* every dependency order between the typed nodes still occurs.
TypeLists(types, n) ==
  {tl \in [1..n -> types] : \A i \in 1..n, j \in 1..n : i < j => TypeRank(tl[i]) <= TypeRank(tl[j])}

\* The board holds a graph as importJSON can load it: nodes 1..n of the given
\* types with addNode's data, edges over the node ids and GhostId.
HoldsGraph(types, maxN, maxE) ==
  \E n \in 0..maxN :
    /\ \E tl \in TypeLists(types, n) : nodes = [i \in 1..n |-> Node(i, NewData(tl[i]))]
    /\ edges \in EdgeLists(0..n, maxE)


(* ---------------- handlers ---------------- *)
\* buildCode
buildCode ==
  /\ code' = BuildText(nodes, edges)
  /\ op' = Op("buildCode", "")
  /\ UNCHANGED <<nodes, edges, selected, downloaded, order>>

\* downloadCode: buildCode's setCode is not visible to the `code` read on the
\* next line; that read is the value the handler was rendered with.
downloadCode ==
  /\ code' = IF code = EmptyText THEN BuildText(nodes, edges) ELSE code
  /\ downloaded' = IF code # EmptyText THEN code
                   ELSE generatePyTorchCode(nodes, edges, projectName)
  /\ op' = Op("downloadCode", "")
  /\ UNCHANGED <<nodes, edges, selected, order>>

\* one call of topologicalSort on the drawn input
SortStep ==
  /\ ~order.done
  /\ order' = [done |-> TRUE, res |-> topologicalSort(nodes, edges)]
  /\ op' = Op("topologicalSort", "")
  /\ UNCHANGED <<nodes, edges, selected, code, downloaded>>

(* ---------------- specifications of the pure functions ---------------- *)
\* order: the value the last topologicalSort call returned, when one was made
NotSorted == [done |-> FALSE, res |-> <<>>]

Fresh ==
  /\ selected = <<>>
  /\ code = EmptyText
  /\ downloaded = NoDownload
  /\ order = NotSorted
  /\ op = Op("init", "")

\* topologicalSort: node lists 1..n in insertion order (ids are opaque, so
\* this is every node list up to renaming), every edge list over them and GhostId
InitSort ==
  /\ \E n \in 0..MaxSortNodes :
       /\ nodes = [i \in 1..n |-> Node(i, NewData("Data"))]
       /\ edges \in EdgeLists(0..n, MaxSortEdges)
  /\ Fresh
NextSort == SortStep
SpecSort == InitSort /\ [][NextSort]_vars

InitValidate ==
  /\ HoldsGraph(NODE_TYPES, MaxValNodes, MaxValEdges)
  /\ Fresh
\* node types of the graphs buildCode and downloadCode are run on
BuildTypes == {"Data", "Model", "Loss", "Optimizer", "Metric", "Trainer"}
InitBuild ==
  /\ HoldsGraph(BuildTypes, MaxBuildNodes, MaxBuildEdges)
  /\ Fresh
NextValidate == buildCode
NextBuild == buildCode \/ downloadCode
SpecValidate == InitValidate /\ [][NextValidate]_vars
SpecBuild == InitBuild /\ [][NextBuild]_vars

(* ---------------- the board under editing ---------------- *)
\* ids in use anywhere in the state; uid() returns an id that is none of them
UsedIds ==
  {nodes[k].id : k \in DOMAIN nodes}
  \cup {edges[k].source : k \in DOMAIN edges} \cup {edges[k].target : k \in DOMAIN edges}
  \cup {selected[k].id : k \in DOMAIN selected}
uid == CHOOSE i \in 1..(Cardinality(UsedIds) + 1) : i \notin UsedIds

\* the palette buttons pressed
AddTypes == {"Model"}

addNode(type) ==
  /\ Len(nodes) < MaxNodes
  /\ LET n == Node(uid, NewData(type))
     IN /\ nodes' = Append(nodes, n)
        /\ selected' = <<n>>
  /\ op' = Op("addNode", "")
  /\ UNCHANGED <<edges, code, downloaded, order>>

\* reactflow's addEdge: a connection that already exists is not added again
addEdge(e, eds) ==
  IF \E k \in DOMAIN eds : eds[k] = e THEN eds ELSE Append(eds, e)

\* onConnect: the canvas connects two nodes it shows
onConnect(s, t) ==
  /\ Len(edges) < MaxEdges
  /\ edges' = addEdge(Edge(s, t), edges)
  /\ op' = Op("onConnect", "")
  /\ UNCHANGED <<nodes, selected, code, downloaded, order>>

RECURSIVE FilterOutNode(_, _)
FilterOutNode(ns, id) ==
  IF ns = <<>> THEN <<>>
  ELSE IF Head(ns).id # id THEN <<Head(ns)>> \o FilterOutNode(Tail(ns), id)
       ELSE FilterOutNode(Tail(ns), id)

RECURSIVE FilterOutEdgesKeepTarget(_, _)
FilterOutEdgesKeepTarget(es, id) ==
  IF es = <<>> THEN <<>>
  ELSE IF Head(es).source # id
       THEN <<Head(es)>> \o FilterOutEdgesKeepTarget(Tail(es), id)
       ELSE FilterOutEdgesKeepTarget(Tail(es), id)
RECURSIVE FilterOutEdges(_, _)
FilterOutEdges(es, id) ==
  IF es = <<>> THEN <<>>
  ELSE IF Head(es).source # id /\ Head(es).target # id
       THEN <<Head(es)>> \o FilterOutEdges(Tail(es), id)
       ELSE FilterOutEdges(Tail(es), id)

removeSelected ==
  /\ selected # <<>>
  /\ edges' = FilterOutEdges(edges, selected[1].id)
  /\ nodes' = FilterOutNode(nodes, selected[1].id)
  /\ selected' = <<>>
  /\ op' = Op("removeSelected", "")
  /\ UNCHANGED <<code, downloaded, order>>

\* onSelectionChange({ nodes }): setSelected(nodes[0] || null)
onSelectionChange(sel) ==
  /\ selected' = sel
  /\ op' = Op("onSelectionChange", "")
  /\ UNCHANGED <<nodes, edges, code, downloaded, order>>

\* nds.map((n) => (n.id === patched.id ? { ...n, data: patched.data } : n))
Patch(nds, patched) ==
  [k \in DOMAIN nds |-> IF nds[k].id = patched.id THEN Node(nds[k].id, patched.data) ELSE nds[k]]

updateNode(patched) ==
  /\ nodes' = Patch(nodes, patched)
  /\ selected' = <<patched>>
  /\ UNCHANGED <<edges, code, downloaded, order>>

\* texts typed into the params field
ParamTexts == {"{", "{\"lr\": 0.01}"}
\* JSON.parse(e.target.value || "{}"): threw, or the value
JSONparse(text) ==
  CASE text = "" -> [threw |-> FALSE, val |-> EmptyObj]
    [] text = "{" -> [threw |-> TRUE, val |-> NoParams]
    [] text = "{\"lr\": 0.01}" -> [threw |-> FALSE, val |-> Obj(Num("0.01"), Absent, Absent)]

\* PropertyEditor, params field onChange
paramsOnChange(text) ==
  /\ selected # <<>>
  /\ op' = Op("paramsOnChange", text)
  /\ LET r == JSONparse(text)
     IN IF r.threw THEN UNCHANGED <<nodes, edges, selected, code, downloaded, order>>
        ELSE updateNode([selected[1] EXCEPT !.data.params = r.val])

\* labels typed into the label field
LabelTexts == {"Net"}
\* PropertyEditor, label field onChange
labelOnChange(text) ==
  /\ selected # <<>>
  /\ op' = Op("labelOnChange", "")
  /\ updateNode([selected[1] EXCEPT !.data.label = text])

\* PropertyEditor, save button: update({})
saveClick ==
  /\ selected # <<>>
  /\ op' = Op("saveClick", "")
  /\ updateNode(selected[1])

groupSelection ==
  /\ selected # <<>>
  /\ Len(nodes) < MaxNodes
  /\ LET composite ==
           Node(uid, [label |-> "Composite", type |-> "Composite",
                      params |-> Params("object", "", Absent, Absent, Absent,
                                        JsVal("array", ToString(selected[1].id))),
                      summary |-> "group"])
     IN nodes' = Append(nodes, composite)
  /\ op' = Op("groupSelection", "")
  /\ UNCHANGED <<edges, selected, code, downloaded, order>>

\* importJSON, reader.onload: the nodes and edges of the file replace the board's
importJSON(ns, es) ==
  /\ nodes' = ns
  /\ edges' = es
  /\ op' = Op("importJSON", "")
  /\ UNCHANGED <<selected, code, downloaded, order>>

NodeIds == {nodes[k].id : k \in DOMAIN nodes}

\* useNodesState([]), useEdgesState([]), useState(null), useState("")
Init ==
  /\ nodes = <<>>
  /\ edges = <<>>
  /\ Fresh

NextEdit ==
  \/ \E t \in AddTypes : addNode(t)
  \/ \E s \in NodeIds, t \in NodeIds : onConnect(s, t)
  \/ removeSelected
  \/ \E sel \in {<<>>} \cup {<<nodes[k]>> : k \in DOMAIN nodes} : onSelectionChange(sel)
  \/ \E text \in ParamTexts : paramsOnChange(text)
  \/ saveClick
  \/ groupSelection
SpecEdit == Init /\ [][NextEdit]_vars

\* files dropped on the board
ImportTypes == {"Data", "Model"}
ImportNext ==
  \E n \in 0..MaxNodes :
    \E tl \in TypeLists(ImportTypes, n), es \in EdgeLists(0..n, MaxEdges) :
      importJSON([i \in 1..n |-> Node(i, NewData(tl[i]))], es)

Next ==
  \/ NextEdit
  \/ paramsOnChange("")
  \/ \E text \in LabelTexts : labelOnChange(text)
  \/ ImportNext
Spec == Init /\ [][Next]_vars

(* ---------------- specification of the emitter's defaulting ---------------- *)
\* params values a file or the params field can give a node
LrValues == {Absent, JsNull, Num("0.01"), JsVal("string", "fast"), JsVal("boolean", "true"),
             JsVal("object", "[object Object]"), JsVal("array", "")}
OptimizerParamsInputs ==
  {NoParams, NullParams, Prim("number", "5"), Prim("string", "adam")}
  \cup {Obj(lr, Absent, Absent) : lr \in LrValues}
TrainerParamsInputs ==
  {NoParams, EmptyObj, Obj(Absent, Num("32"), Num("5")), Obj(Absent, JsNull, Num("5")),
   Obj(Absent, Num("32"), Absent)}
SplitParamsInputs == {NoParams, EmptyObj}

\* Data -> Transform -> Split -> Model -> Loss -> Optimizer -> Trainer -> Metric
Pipeline(splitP, optP, trainerP) ==
  <<Node(1, NewData("Data")), Node(2, NewData("Transform")),
    Node(3, [NewData("Split") EXCEPT !.params = splitP]),
    Node(4, NewData("Model")), Node(5, NewData("Loss")),
    Node(6, [NewData("Optimizer") EXCEPT !.params = optP]),
    Node(7, [NewData("Trainer") EXCEPT !.params = trainerP]),
    Node(8, NewData("Metric"))>>

InitEmit ==
  /\ \E splitP \in SplitParamsInputs, optP \in OptimizerParamsInputs, trainerP \in TrainerParamsInputs :
       nodes = Pipeline(splitP, optP, trainerP)
  /\ edges = [i \in 1..7 |-> Edge(i, i + 1)]
  /\ Fresh
SpecEmit == InitEmit /\ [][NextBuild]_vars

(* ======================= properties ======================= *)
Range(f) == {f[k] : k \in DOMAIN f}
\* positions of x in a sequence
Pos(seq, x) == {k \in DOMAIN seq : seq[k] = x}

\* edges with both endpoints among the nodes, as a relation
InnerEdges(ns, es) ==
  {<<es[k].source, es[k].target>> : k \in {j \in DOMAIN es :
      es[j].source \in {ns[i].id : i \in DOMAIN ns} /\ es[j].target \in {ns[i].id : i \in DOMAIN ns}}}
RECURSIVE TransitiveClosure(_)
TransitiveClosure(R) ==
  LET R2 == R \cup {<<pq[1][1], pq[2][2]>> : pq \in {x \in R \X R : x[1][2] = x[2][1]}}
  IN IF R2 = R THEN R ELSE TransitiveClosure(R2)
\* a directed cycle among the nodes
HasCycle(ns, es) == \E p \in TransitiveClosure(InnerEdges(ns, es)) : p[1] = p[2]

(* ---- topologicalSort ---- *)
\* C1: in the sequence topologicalSort returns, the source of every edge
\* whose two endpoints both appear stands strictly before its target, and no
\* id appears twice.
C1_EdgesRespected ==
  order.done =>
    /\ \A k \in DOMAIN edges :
         \A i \in Pos(order.res, edges[k].source), j \in Pos(order.res, edges[k].target) : i < j
    /\ \A i \in DOMAIN order.res, j \in DOMAIN order.res : order.res[i] = order.res[j] => i = j

\* C1 witness: a sort that returned both endpoints of an edge, on an input
\* that also has an edge with an endpoint outside the node list
C1_Witness ==
  /\ order.done
  /\ \E k \in DOMAIN edges : {edges[k].source, edges[k].target} \subseteq Range(order.res)
  /\ \E k \in DOMAIN edges : GhostId \in {edges[k].source, edges[k].target}

\* C2: if the edges induce no directed cycle over the nodes, the returned
\* sequence has exactly as many entries as there are nodes.
C2_TotalWhenAcyclic ==
  (order.done /\ ~HasCycle(nodes, edges)) => Len(order.res) = Len(nodes)

\* Kahn's algorithm with a FIFO ready queue whose simultaneous entries are
\* taken in the insertion order of N
IdsOf(ns) == [k \in DOMAIN ns |-> ns[k].id]
RECURSIVE KahnByInsertion(_, _, _, _)
KahnByInsertion(ns, rel, done, q) ==
  IF q = <<>> THEN done
  ELSE LET v == Head(q)
           done2 == Append(done, v)
           ready(n) == /\ n.id \notin Range(done2) /\ n.id \notin Range(Tail(q))
                       /\ <<v, n.id>> \in rel
                       /\ \A p \in rel : p[2] = n.id => p[1] \in Range(done2)
       IN KahnByInsertion(ns, rel, done2, Tail(q) \o IdsOf(SelectSeq(ns, ready)))
ReferenceKahn(ns, es) ==
  LET rel == InnerEdges(ns, es)
      source(n) == \A p \in rel : p[2] # n.id
  IN KahnByInsertion(ns, rel, <<>>, IdsOf(SelectSeq(ns, source)))

\* every edge joins two nodes of the list
NoDanglingInput == \A k \in DOMAIN edges : GhostId \notin {edges[k].source, edges[k].target}

\* C6 as stated: the returned sequence is the reference's, whatever the
\* order of the edge list (compared on inputs whose edges join nodes of N,
\* where the reference is defined).
C6_InsertionOrderTieBreak ==
  (order.done /\ NoDanglingInput) => order.res = ReferenceKahn(nodes, edges)

\* the step of the sort at which x entered the queue: the position in the
\* result of its last-dequeued predecessor, then the position in the edge
\* list of that predecessor's last edge into x
LastEdgeFrom(v, x) ==
  CHOOSE k \in DOMAIN edges :
    /\ edges[k] = Edge(v, x)
    /\ \A j \in DOMAIN edges : edges[j] = Edge(v, x) => j <= k
Releaser(x) ==
  CHOOSE i \in DOMAIN order.res :
    /\ \E k \in DOMAIN edges : edges[k] = Edge(order.res[i], x)
    /\ \A j \in DOMAIN order.res :
         (\E k \in DOMAIN edges : edges[k] = Edge(order.res[j], x)) => j <= i
HasPredecessor(x) == \E k \in DOMAIN edges : edges[k].target = x
EnteredBefore(x, y) ==
  \/ Releaser(x) < Releaser(y)
  \/ /\ Releaser(x) = Releaser(y)
     /\ LastEdgeFrom(order.res[Releaser(x)], x) < LastEdgeFrom(order.res[Releaser(y)], y)

\* C6 (amended): the sequence is a FIFO Kahn order in which the nodes ready
\* at the start stand first in the insertion order of N, and every other
\* entry stands in the order in which the edge list released it: by the
\* position of the predecessor dequeued last, and among the entries released
\* by one predecessor by the position of their releasing edges in the edge
\* list, not by the insertion order of N.
C6_EdgeOrderTieBreak ==
  order.done =>
    LET res == order.res
        start == IdsOf(SelectSeq(nodes, LAMBDA n : ~HasPredecessor(n.id)))
    IN /\ Len(res) >= Len(start)
       /\ SubSeq(res, 1, Len(start)) = start
       /\ \A i \in DOMAIN res : i > Len(start) =>
            /\ HasPredecessor(res[i])
            /\ \A k \in DOMAIN edges : edges[k].target = res[i] => edges[k].source \in Range(res)
            /\ Releaser(res[i]) < i
       /\ \A i \in DOMAIN res, j \in DOMAIN res :
            (Len(start) < i /\ i < j) => EnteredBefore(res[i], res[j])

\* C6 witness: one dequeued node released two successors against the
\* insertion order of N (node ids follow the insertion order here)
C6_Witness ==
  /\ order.done
  /\ \E i \in DOMAIN order.res, j \in DOMAIN order.res :
       /\ i < j
       /\ order.res[i] > order.res[j]
       /\ HasPredecessor(order.res[i]) /\ HasPredecessor(order.res[j])
       /\ Releaser(order.res[i]) = Releaser(order.res[j])

(* ---- validateGraph, buildCode, downloadCode ---- *)
Stages == {"Model", "Loss", "Optimizer"}
StageMessage(t) == CASE t = "Model" -> NoModel [] t = "Loss" -> NoLoss [] t = "Optimizer" -> NoOptimizer
MissingSet == {t \in Stages : \A k \in DOMAIN nodes : nodes[k].data.type # t}
\* the messages of the error block on display
ShownErrors == IF code.kind = "errors" THEN {code.lines[k].arg : k \in DOMAIN code.lines} ELSE {}
Built == op[1] = "buildCode"

\* C3: a graph with a Model, a Loss and an Optimizer node and a directed
\* cycle among its nodes, whatever its other edges: buildCode displays the
\* error block, with the cycle message, and no emitter output.
C3_CycleAbortsBuild ==
  (Built /\ MissingSet = {} /\ HasCycle(nodes, edges)) =>
    /\ ~validateGraph(nodes, edges).ok
    /\ code.kind = "errors"
    /\ CycleFound \in ShownErrors

C5_NoProgramForInvalidGraph ==
  (op[1] \in {"buildCode", "downloadCode"} /\ ~validateGraph(nodes, edges).ok) =>
    /\ code.kind = "errors"
    /\ op[1] = "downloadCode" => downloaded.kind = "errors"

\* C7: the optimizer line carries params.lr when it is a number and 1e-3 in
\* every other case.
C7_LrDefaulting ==
  (Built /\ code.kind = "program") =>
    \A k \in DOMAIN code.lines :
      code.lines[k].blk = "optimizer" =>
        LET p == ById(nodes, code.lines[k].node).data.params
        IN code.lines[k].arg =
             IF p.kind = "object" /\ p.lr.t = "number" THEN p.lr.s ELSE "0.001"

\* C8: for a graph that passes validateGraph the emitted text has the
\* evaluation block iff the graph has a Metric node, at most once, after the
\* Trainer blocks and before the save statement.
C8_MetricGating ==
  (Built /\ validateGraph(nodes, edges).ok) =>
    LET m == {k \in DOMAIN code.lines : code.lines[k].blk = "metrics"}
    IN /\ m # {} <=> \E k \in DOMAIN nodes : nodes[k].data.type = "Metric"
       /\ Cardinality(m) <= 1
       /\ \A i \in m, j \in DOMAIN code.lines :
            /\ code.lines[j].blk \in {"loaders", "trainloop"} => j < i
            /\ code.lines[j].blk = "save" => i < j

(* ---- the board under editing ---- *)
\* texts of ParamTexts and "" that are not JSON
MalformedTexts == {"{"}

\* C9: a params text that fails to parse leaves nodes, edges and selection
\* as they were; a text that parses replaces only the params of the node
\* whose id is the selection's and leaves the other nodes and the edges.
C9_ParamsEdit ==
  [][op'[1] = "paramsOnChange" =>
       IF op'[2] \in MalformedTexts
       THEN UNCHANGED <<nodes, edges, selected>>
       ELSE /\ edges' = edges
            /\ nodes' = [k \in DOMAIN nodes |->
                           IF nodes[k].id = selected[1].id
                           THEN [nodes[k] EXCEPT !.data.params = JSONparse(op'[2]).val]
                           ELSE nodes[k]]]_vars

NoDanglingEdges ==
  \A k \in DOMAIN edges : edges[k].source \in NodeIds /\ edges[k].target \in NodeIds

\* C10: from the empty board, under addNode, onConnect, onSelectionChange,
\* updateNode, groupSelection and removeSelected every edge joins two nodes
\* of the board; removeSelected removes the selected node and the edges that
\* touch it, keeps every other node and edge, and clears the selection.
C10_NoDanglingEdges ==
  /\ NoDanglingEdges
  /\ [][/\ NoDanglingEdges'
        /\ op'[1] = "removeSelected" =>
             /\ selected # <<>>
             /\ nodes' = SelectSeq(nodes, LAMBDA n : n.id # selected[1].id)
             /\ Len(nodes') = Len(nodes) - 1
             /\ edges' = SelectSeq(edges, LAMBDA e : e.source # selected[1].id
                                                     /\ e.target # selected[1].id)
             /\ selected' = <<>>]_vars

\* C10 witness: removeSelected has removed a node and left a node and an
\* edge on the board
C10_Witness ==
  /\ op[1] = "removeSelected"
  /\ nodes # <<>>
  /\ edges # <<>>

(* ---- validateGraph and the emitter's orderedNodes ---- *)
\* C11: for a graph that validateGraph accepts, every node of the graph is
\* among the emitter's orderedNodes, and the emitted text has the model
\* block, the loss block and the optimizer block.
C11_ValidatorEmitterAgree ==
  (Built /\ validateGraph(nodes, edges).ok) =>
    /\ NodeIds \subseteq Range(IdsOf(OrderedNodes(topologicalSort(nodes, edges), nodes)))
    /\ code.kind = "program"
    /\ \A b \in {"model", "loss", "optimizer"} :
         \E k \in DOMAIN code.lines : code.lines[k].blk = b

====
